---- MODULE Spec2Model ----
(***************************************************************************)
(* Kaleidoscope front end: the tokenizer of src/src/lexer.h and the        *)
(* recursive-descent / precedence-climbing parser of src/src/parser.h,     *)
(* driven by MainLoop.  Characters are one-character strings, EOF is the   *)
(* string "EOF"; tokens are either one of the tok_* names or the character *)
(* itself, as in the source where a token is an int.                       *)
(***************************************************************************)
EXTENDS Integers, Sequences, FiniteSets, TLC

VARIABLES input, pc, pos, LastChar, IdentifierStr, NumVal, CurTok,
          BinopPrecedence, stderr, built, toks, results, trace

vars == <<input, pc, pos, LastChar, IdentifierStr, NumVal, CurTok,
          BinopPrecedence, stderr, built, toks, results, trace>>

(* ---------------------------------------------------------------------- *)
(* Characters (the C locale's <cctype> classes, on the characters used)    *)
(* ---------------------------------------------------------------------- *)
EOF == "EOF"

isspace(c) == c \in {" ", "\t", "\n", "\r"}

isalpha(c) == c \in {"a", "b", "d", "e", "f", "g", "n", "o", "r", "t", "x"}

isdigit(c) == c \in {"0", "1", "2", "3", "4", "5", "6", "7", "8", "9"}

isalnum(c) == isalpha(c) \/ isdigit(c)

(* every character of the model is a 7-bit one; the tok_* values are      *)
(* negative ints in the source and so are not ascii                       *)
isascii(t) == t \notin {"tok_eof", "tok_def", "tok_extern", "tok_identifier", "tok_number"}

tok_eof == "tok_eof"

tok_def == "tok_def"

tok_extern == "tok_extern"

tok_identifier == "tok_identifier"

tok_number == "tok_number"

DigitVal(c) == CASE c = "0" -> 0 [] c = "1" -> 1 [] c = "2" -> 2 [] c = "3" -> 3
                 [] c = "4" -> 4 [] c = "5" -> 5 [] c = "6" -> 6 [] c = "7" -> 7
                 [] c = "8" -> 8 [] c = "9" -> 9

(* ---------------------------------------------------------------------- *)
(* strtod on a string of digits and '.': the longest prefix                *)
(* digits* [ '.' digits* ] holding at least one digit is converted, and    *)
(* no conversion gives 0.  A double is written m * 10^-e with the trailing *)
(* zeros of the fraction dropped, so equal values are equal records; the   *)
(* strings of the model are far below 15 significant digits, where         *)
(* decimal -> double is exact enough to be injective.                      *)
(* ---------------------------------------------------------------------- *)
RECURSIVE Normalize(_)
Normalize(d) == IF d.e > 0 /\ d.m % 10 = 0
                THEN Normalize([m |-> d.m \div 10, e |-> d.e - 1])
                ELSE d

RECURSIVE StrtodScan(_, _, _, _, _)
StrtodScan(str, i, m, e, seenDot) ==
    IF i > Len(str) THEN [m |-> m, e |-> e]
    ELSE IF isdigit(str[i])
         THEN StrtodScan(str, i + 1, m * 10 + DigitVal(str[i]),
                         IF seenDot THEN e + 1 ELSE e, seenDot)
         ELSE IF str[i] = "." /\ ~seenDot
              THEN StrtodScan(str, i + 1, m, e, TRUE)
              ELSE [m |-> m, e |-> e]

strtod(str) == Normalize(StrtodScan(str, 1, 0, 0, FALSE))

(* ---------------------------------------------------------------------- *)
(* The state the lexer and the parser thread through their calls           *)
(* ---------------------------------------------------------------------- *)
St == [pos |-> pos, LastChar |-> LastChar, IdentifierStr |-> IdentifierStr,
       NumVal |-> NumVal, CurTok |-> CurTok, BinopPrecedence |-> BinopPrecedence,
       stderr |-> stderr, built |-> built, toks |-> toks, trace |-> trace]

(* trace is the history of the run: one event for each gettok call, each  *)
(* read of IdentifierStr or NumVal, each GetTokPrecendence call, each      *)
(* LogError call, each ParsePrimary call and each call of and return from  *)
(* ParseBinOpRHS, in the order the program makes them                      *)
Note(s, e) == [s EXCEPT !.trace = Append(s.trace, e)]

Read(s, var, val) == Note(s, [ev |-> "read", var |-> var, tok |-> s.CurTok, val |-> val])

(* getchar: pos counts the calls; past the end of the stream it gives EOF *)
getchar(s) == [s EXCEPT !.pos = s.pos + 1,
                        !.LastChar = IF s.pos + 1 <= Len(input)
                                     THEN input[s.pos + 1] ELSE EOF]

RECURSIVE SkipWhitespace(_)
SkipWhitespace(s) == IF isspace(s.LastChar) THEN SkipWhitespace(getchar(s)) ELSE s

(* while (isalnum((LastChar = getchar()))) IdentifierStr += LastChar;     *)
RECURSIVE ReadIdentifier(_)
ReadIdentifier_test(s) ==
    IF isalnum(s.LastChar)
    THEN ReadIdentifier([s EXCEPT !.IdentifierStr = Append(s.IdentifierStr, s.LastChar)])
    ELSE s

ReadIdentifier(s) == ReadIdentifier_test(getchar(s))

(* do { NumStr += LastChar; LastChar = getchar(); } while (digit or '.')  *)
RECURSIVE ReadNumber(_, _)
(* variant: a second '.' ends the number *)
ReadNumber_test_onedot(s, NumStr) ==
    IF isdigit(s.LastChar) \/ (s.LastChar = "." /\ \A i \in 1..Len(NumStr) : NumStr[i] /= ".")
    THEN ReadNumber(s, NumStr)
    ELSE [s |-> s, NumStr |-> NumStr]

ReadNumber_test(s, NumStr) ==
    IF isdigit(s.LastChar) \/ s.LastChar = "."
    THEN ReadNumber(s, NumStr)
    ELSE [s |-> s, NumStr |-> NumStr]

ReadNumber(s, NumStr) == ReadNumber_test(getchar(s), Append(NumStr, s.LastChar))

(* do LastChar = getchar(); while (LastChar != EOF, '\n', '\r')            *)
RECURSIVE SkipComment(_)
(* variant: the comment ends at any whitespace character *)
SkipComment_test_space(s) ==
    IF s.LastChar /= EOF /\ ~isspace(s.LastChar)
    THEN SkipComment(s)
    ELSE s

SkipComment_test(s) ==
    IF s.LastChar /= EOF /\ s.LastChar /= "\n" /\ s.LastChar /= "\r"
    THEN SkipComment(s)
    ELSE s

SkipComment(s) == SkipComment_test(getchar(s))

(* variant: a keyword is recognised as a prefix of the text *)
Keyword_prefix(str) ==
    IF Len(str) >= 3 /\ SubSeq(str, 1, 3) = <<"d", "e", "f">> THEN tok_def
    ELSE IF Len(str) >= 6 /\ SubSeq(str, 1, 6) = <<"e", "x", "t", "e", "r", "n">> THEN tok_extern
    ELSE tok_identifier

Keyword(str) == IF str = <<"d", "e", "f">> THEN tok_def
                ELSE IF str = <<"e", "x", "t", "e", "r", "n">> THEN tok_extern
                ELSE tok_identifier

(* gettok: the new state s and the token tok returned                     *)
RECURSIVE gettok(_)
gettok_identifier(s) == [s |-> s, tok |-> Keyword(s.IdentifierStr)]

gettok_number(n) == [s |-> [n.s EXCEPT !.NumVal = strtod(n.NumStr)], tok |-> tok_number]

(* end of file is not eaten; any other character is the token             *)
(* variant: the end of file is read past *)
gettok_char_eats(s) ==
    IF s.LastChar = EOF THEN [s |-> getchar(s), tok |-> tok_eof]
    ELSE [s |-> getchar(s), tok |-> s.LastChar]

gettok_char(s) ==
    IF s.LastChar = EOF THEN [s |-> s, tok |-> tok_eof]
    ELSE [s |-> getchar(s), tok |-> s.LastChar]

gettok_comment(s) == IF s.LastChar /= EOF THEN gettok(s) ELSE gettok_char(s)

gettok_token(s) ==
    IF isalpha(s.LastChar)
    THEN gettok_identifier(ReadIdentifier([s EXCEPT !.IdentifierStr = <<s.LastChar>>]))
    ELSE IF isdigit(s.LastChar) \/ s.LastChar = "."
    THEN gettok_number(ReadNumber(s, <<>>))
    ELSE IF s.LastChar = "#"
    THEN gettok_comment(SkipComment(s))
    ELSE gettok_char(s)

gettok(s) == gettok_token(SkipWhitespace(s))

getNextToken_set(g) ==
    [g.s EXCEPT !.CurTok = g.tok, !.toks = Append(g.s.toks, g.tok),
                !.trace = Append(g.s.trace,
                     [ev |-> "gettok", tok |-> g.tok, pos |-> g.s.pos,
                      LastChar |-> g.s.LastChar,
                      IdentifierStr |-> g.s.IdentifierStr, NumVal |-> g.s.NumVal])]

getNextToken(s) == getNextToken_set(gettok(s))

(* ---------------------------------------------------------------------- *)
(* AST (src/src/ast.h); nullptr is the record Null                         *)
(* ---------------------------------------------------------------------- *)
Null == [kind |-> "null"]

NumberExprAST(value) == [kind |-> "Number", value |-> value]

VariableExprAST(name) == [kind |-> "Variable", name |-> name]

BinaryExprAST(op, LHS, RHS) == [kind |-> "Binary", op |-> op, LHS |-> LHS, RHS |-> RHS]

CallExprAST(callee, args) == [kind |-> "Call", callee |-> callee, args |-> args]

PrototypeAST(name, args) == [kind |-> "Prototype", name |-> name, args |-> args]

FunctionAST(prototype, body) == [kind |-> "Function", prototype |-> prototype, body |-> body]

(* std::make_unique<T>(...): the node is constructed, logged in built, and *)
(* is the result r                                                         *)
make_unique(s, node) == [s |-> [s EXCEPT !.built = Append(s.built, node)], r |-> node]

(* LogError / LogErrorP: the message goes to stderr, the result is nullptr *)
LogError(s, str) ==
    [s |-> [s EXCEPT !.stderr = Append(s.stderr, str),
                     !.trace = Append(s.trace, [ev |-> "LogError", str |-> str,
                                                tok |-> s.CurTok])],
     r |-> Null]

LogErrorP(s, str) == LogError(s, str)

(* ---------------------------------------------------------------------- *)
(* Operator precedence table                                               *)
(* ---------------------------------------------------------------------- *)
BinaryOperatorsInstalled(s) == DOMAIN s.BinopPrecedence /= {}

(* variant: '*' entered with the precedence of '+' *)
InstallBinaryOperatorsOn_flat(s) ==
    IF BinaryOperatorsInstalled(s) THEN s
    ELSE [s EXCEPT !.BinopPrecedence =
             ("<" :> 10) @@ ("+" :> 20) @@ ("-" :> 20) @@ ("*" :> 20)]

InstallBinaryOperatorsOn(s) ==
    IF BinaryOperatorsInstalled(s) THEN s
    ELSE [s EXCEPT !.BinopPrecedence =
             ("<" :> 10) @@ ("+" :> 20) @@ ("-" :> 20) @@ ("*" :> 40)]

(* std::map::operator[] inserts a value-initialised (0) entry for a key   *)
(* the map does not hold                                                  *)
MapIndex(m, k) == IF k \in DOMAIN m THEN m ELSE (k :> 0) @@ m

(* the value returned, with the event of the call: the token asked about,  *)
(* the table as the call found it, and the value                           *)
GetTokPrecendence_return(s, table, r) ==
    [s |-> Note(s, [ev |-> "GetTokPrecendence", tok |-> s.CurTok,
                    table |-> table, r |-> r]),
     r |-> r]

(* variant: an entry of 0 counts as a precedence *)
GetTokPrecendence_lookup_zero(s, m) ==
    GetTokPrecendence_return([s EXCEPT !.BinopPrecedence = m], s.BinopPrecedence,
                             IF m[s.CurTok] < 0 THEN -1 ELSE m[s.CurTok])

GetTokPrecendence_lookup(s, m) ==
    GetTokPrecendence_return([s EXCEPT !.BinopPrecedence = m], s.BinopPrecedence,
                             IF m[s.CurTok] <= 0 THEN -1 ELSE m[s.CurTok])

(* variant: the table is asked for before the token is looked at *)
GetTokPrecendence_installedfirst(s) ==
    IF ~BinaryOperatorsInstalled(s)
    THEN GetTokPrecendence_return(
             LogError(s, "Binary operators are not installed yet.").s,
             s.BinopPrecedence, -2)
    ELSE IF ~isascii(s.CurTok) THEN GetTokPrecendence_return(s, s.BinopPrecedence, -1)
    ELSE GetTokPrecendence_lookup(s, MapIndex(s.BinopPrecedence, s.CurTok))

GetTokPrecendence(s) ==
    IF ~isascii(s.CurTok) THEN GetTokPrecendence_return(s, s.BinopPrecedence, -1)
    ELSE IF ~BinaryOperatorsInstalled(s)
    THEN GetTokPrecendence_return(
             LogError(s, "Binary operators are not installed yet.").s,
             s.BinopPrecedence, -2)
    ELSE GetTokPrecendence_lookup(s, MapIndex(s.BinopPrecedence, s.CurTok))

(* ---------------------------------------------------------------------- *)
(* Expression parser.  Every Parse* gives the new state s and the result   *)
(* r; X_step(..., v) is the rest of X once the call that gave v returned.  *)
(* ---------------------------------------------------------------------- *)
RECURSIVE ParseExpression(_)
RECURSIVE ParseBinOpRHS(_, _, _)
RECURSIVE ParsePrimary(_)
RECURSIVE ParseCallArgs(_, _)

(* the node is made from NumVal, then the number is consumed              *)
ParseNumberExpr_consume(made) == [s |-> getNextToken(made.s), r |-> made.r]

ParseNumberExpr(s) ==
    ParseNumberExpr_consume(make_unique(Read(s, "NumVal", s.NumVal),
                                        NumberExprAST(s.NumVal)))

(* variant: whatever token follows the inner expression is taken as ')' *)
ParseParenExpr_close_any(expression) ==
    IF expression.r = Null THEN expression
    ELSE [s |-> getNextToken(expression.s), r |-> expression.r]

ParseParenExpr_close(expression) ==
    IF expression.r = Null THEN expression
    ELSE IF expression.s.CurTok /= ")" THEN LogError(expression.s, "expected ')'")
    ELSE [s |-> getNextToken(expression.s), r |-> expression.r]

ParseParenExpr(s) == ParseParenExpr_close(ParseExpression(getNextToken(s)))

(* the while (true) loop of ParseIdentifierExpr; ok tells the break from   *)
(* the two return nullptr                                                  *)
(* variant: each argument is put in front of the ones parsed before it *)
ParseCallArgs_next_reversed(arg, args) ==
    IF arg.r = Null THEN [s |-> arg.s, args |-> args, ok |-> FALSE]
    ELSE IF arg.s.CurTok = ")"
    THEN [s |-> arg.s, args |-> <<arg.r>> \o args, ok |-> TRUE]
    ELSE IF arg.s.CurTok /= ","
    THEN [s |-> LogError(arg.s, "Expected ')' or ',' in argument list").s,
          args |-> <<arg.r>> \o args, ok |-> FALSE]
    ELSE ParseCallArgs(getNextToken(arg.s), <<arg.r>> \o args)

(* variant: any token that is not ',' ends the argument list *)
ParseCallArgs_next_lenient(arg, args) ==
    IF arg.r = Null THEN [s |-> arg.s, args |-> args, ok |-> FALSE]
    ELSE IF arg.s.CurTok /= ","
    THEN [s |-> arg.s, args |-> Append(args, arg.r), ok |-> TRUE]
    ELSE ParseCallArgs(getNextToken(arg.s), Append(args, arg.r))

ParseCallArgs_next(arg, args) ==
    IF arg.r = Null THEN [s |-> arg.s, args |-> args, ok |-> FALSE]
    ELSE IF arg.s.CurTok = ")"
    THEN [s |-> arg.s, args |-> Append(args, arg.r), ok |-> TRUE]
    ELSE IF arg.s.CurTok /= ","
    THEN [s |-> LogError(arg.s, "Expected ')' or ',' in argument list").s,
          args |-> Append(args, arg.r), ok |-> FALSE]
    ELSE ParseCallArgs(getNextToken(arg.s), Append(args, arg.r))

ParseCallArgs(s, args) == ParseCallArgs_next(ParseExpression(s), args)

ParseIdentifierExpr_call(idName, a) ==
    IF ~a.ok THEN [s |-> a.s, r |-> Null]
    ELSE make_unique(getNextToken(a.s), CallExprAST(idName, a.args))

ParseIdentifierExpr_args(idName, s) ==
    ParseIdentifierExpr_call(idName,
        IF s.CurTok /= ")" THEN ParseCallArgs(s, <<>>)
        ELSE [s |-> s, args |-> <<>>, ok |-> TRUE])

ParseIdentifierExpr_name(idName, s) ==
    IF s.CurTok /= "(" THEN make_unique(s, VariableExprAST(idName))
    ELSE ParseIdentifierExpr_args(idName, getNextToken(s))

(* variant: idName is taken from IdentifierStr after the identifier is     *)
(* consumed                                                                *)
ParseIdentifierExpr_late(g) ==
    ParseIdentifierExpr_name(g.IdentifierStr, Read(g, "IdentifierStr", g.IdentifierStr))

ParseIdentifierExpr_stale(s) == ParseIdentifierExpr_late(getNextToken(s))

ParseIdentifierExpr(s) ==
    ParseIdentifierExpr_name(s.IdentifierStr,
                             getNextToken(Read(s, "IdentifierStr", s.IdentifierStr)))

ParsePrimary_switch(s) ==
    IF s.CurTok = tok_identifier THEN ParseIdentifierExpr(s)
    ELSE IF s.CurTok = tok_number THEN ParseNumberExpr(s)
    ELSE IF s.CurTok = "(" THEN ParseParenExpr(s)
    ELSE LogError(s, "Unknown token when expecting an expression.")

ParsePrimary(s) == ParsePrimary_switch(Note(s, [ev |-> "ParsePrimary", tok |-> s.CurTok]))

(* the call ParseBinOpRHS(exprPrec, LHS) and its return, with the cursor   *)
(* and the number of nodes made so far                                     *)
Enter(s, exprPrec, LHS) ==
    Note(s, [ev |-> "ParseBinOpRHS", exprPrec |-> exprPrec, LHS |-> LHS,
             tok |-> s.CurTok, pos |-> s.pos, LastChar |-> s.LastChar,
             built |-> Len(s.built)])

Return(s, r) ==
    [s |-> Note(s, [ev |-> "return", r |-> r, tok |-> s.CurTok, pos |-> s.pos,
                    LastChar |-> s.LastChar, built |-> Len(s.built)]),
     r |-> r]

ParseExpression_rhs(LHS) ==
    IF LHS.r = Null THEN LHS ELSE ParseBinOpRHS(0, LHS.r, Enter(LHS.s, 0, LHS.r))

ParseExpression(s) == ParseExpression_rhs(ParsePrimary(s))

(* one turn of the while (true) loop of ParseBinOpRHS, then the loop again *)
ParseBinOpRHS_merge(exprPrec, LHS, binOp, RHS) ==
    IF RHS.r = Null THEN RHS
    ELSE ParseBinOpRHS(exprPrec, BinaryExprAST(binOp, LHS, RHS.r),
                       make_unique(RHS.s, BinaryExprAST(binOp, LHS, RHS.r)).s)

(* variant: the pending operator takes RHS when it binds at least as      *)
(* tightly, with the floor left at tokPrec                                 *)
ParseBinOpRHS_pending_rightassoc(tokPrec, nextPrec, RHS, s) ==
    IF tokPrec <= nextPrec THEN ParseBinOpRHS(tokPrec, RHS, Enter(s, tokPrec, RHS))
    ELSE [s |-> s, r |-> RHS]

ParseBinOpRHS_pending(tokPrec, nextPrec, RHS, s) ==
    IF tokPrec < nextPrec
    THEN ParseBinOpRHS(tokPrec + 1, RHS, Enter(s, tokPrec + 1, RHS))
    ELSE [s |-> s, r |-> RHS]

ParseBinOpRHS_next(exprPrec, LHS, tokPrec, binOp, RHS, n) ==
    ParseBinOpRHS_merge(exprPrec, LHS, binOp,
                        ParseBinOpRHS_pending(tokPrec, n.r, RHS, n.s))

ParseBinOpRHS_primary(exprPrec, LHS, tokPrec, binOp, RHS) ==
    IF RHS.r = Null THEN RHS
    ELSE ParseBinOpRHS_next(exprPrec, LHS, tokPrec, binOp, RHS.r, GetTokPrecendence(RHS.s))

(* variant: the loop goes on when tokPrec is one below exprPrec *)
ParseBinOpRHS_tok_offbyone(exprPrec, LHS, t) ==
    IF t.r + 1 < exprPrec THEN Return(t.s, LHS)
    ELSE ParseBinOpRHS_primary(exprPrec, LHS, t.r, t.s.CurTok,
                               ParsePrimary(getNextToken(t.s)))

ParseBinOpRHS_tok(exprPrec, LHS, t) ==
    IF t.r < exprPrec THEN Return(t.s, LHS)
    ELSE ParseBinOpRHS_primary(exprPrec, LHS, t.r, t.s.CurTok,
                               ParsePrimary(getNextToken(t.s)))

ParseBinOpRHS(exprPrec, LHS, s) == ParseBinOpRHS_tok(exprPrec, LHS, GetTokPrecendence(s))

(* ---------------------------------------------------------------------- *)
(* Prototypes, definitions, externs, top-level expressions                 *)
(* ---------------------------------------------------------------------- *)
(* while (getNextToken() == tok_identifier) argNames.push_back(...)        *)
RECURSIVE ReadArgNames(_, _)
(* variant: a parameter name seen before is not recorded again *)
ReadArgNames_test_unique(s, argNames) ==
    IF s.CurTok = tok_identifier
    THEN ReadArgNames(Read(s, "IdentifierStr", s.IdentifierStr), IF \E i \in 1..Len(argNames) : argNames[i] = s.IdentifierStr
                         THEN argNames ELSE Append(argNames, s.IdentifierStr))
    ELSE [s |-> s, argNames |-> argNames]

(* variant: commas between the parameter names are skipped *)
ReadArgNames_test_commas(s, argNames) ==
    IF s.CurTok = tok_identifier
    THEN ReadArgNames(Read(s, "IdentifierStr", s.IdentifierStr),
                      Append(argNames, s.IdentifierStr))
    ELSE IF s.CurTok = ","
    THEN ReadArgNames(s, argNames)
    ELSE [s |-> s, argNames |-> argNames]

ReadArgNames_test(s, argNames) ==
    IF s.CurTok = tok_identifier
    THEN ReadArgNames(Read(s, "IdentifierStr", s.IdentifierStr),
                      Append(argNames, s.IdentifierStr))
    ELSE [s |-> s, argNames |-> argNames]

ReadArgNames(s, argNames) == ReadArgNames_test(getNextToken(s), argNames)

ParsePrototype_close(fnName, a) ==
    IF a.s.CurTok /= ")" THEN LogErrorP(a.s, "Expected ')' in prototype")
    ELSE make_unique(getNextToken(a.s), PrototypeAST(fnName, a.argNames))

ParsePrototype_open(fnName, s) ==
    IF s.CurTok /= "(" THEN LogErrorP(s, "Expected '(' in prototype")
    ELSE ParsePrototype_close(fnName, ReadArgNames(s, <<>>))

ParsePrototype(s) ==
    IF s.CurTok /= tok_identifier
    THEN LogErrorP(s, "Expected function name in prototype")
    ELSE ParsePrototype_open(s.IdentifierStr,
                             getNextToken(Read(s, "IdentifierStr", s.IdentifierStr)))

(* variant: the body is not checked before the function is made *)
ParseDefinition_make_unchecked(prototype, expression) ==
    make_unique(expression.s, FunctionAST(prototype, expression.r))

ParseDefinition_make(prototype, expression) ==
    IF expression.r /= Null
    THEN make_unique(expression.s, FunctionAST(prototype, expression.r))
    ELSE expression

ParseDefinition_body(prototype) ==
    IF prototype.r = Null THEN prototype
    ELSE ParseDefinition_make(prototype.r, ParseExpression(prototype.s))

ParseDefinition(s) == ParseDefinition_body(ParsePrototype(getNextToken(s)))

ParseExtern(s) == ParsePrototype(getNextToken(s))

(* the anonymous prototype is made, then the function around it            *)
ParseTopLevelExpr_wrap(expression) ==
    IF expression.r /= Null
    THEN make_unique(make_unique(expression.s, PrototypeAST(<<>>, <<>>)).s,
                     FunctionAST(PrototypeAST(<<>>, <<>>), expression.r))
    ELSE expression

ParseTopLevelExpr(s) == ParseTopLevelExpr_wrap(ParseExpression(s))

(* ---------------------------------------------------------------------- *)
(* Top-level handlers: the result of the Parse* call is kept in r          *)
(* ---------------------------------------------------------------------- *)
fprintf(s, str) == [s EXCEPT !.stderr = Append(s.stderr, str)]

(* if (Parse...()) fprintf(...); else getNextToken();                      *)
(* variant: a failed parse leaves the cursor where it is *)
HandleResult_noskip(parsed, str) ==
    IF parsed.r /= Null
    THEN [s |-> fprintf(parsed.s, str), r |-> parsed.r]
    ELSE [s |-> parsed.s, r |-> Null]

HandleResult(parsed, str) ==
    IF parsed.r /= Null
    THEN [s |-> fprintf(parsed.s, str), r |-> parsed.r]
    ELSE [s |-> getNextToken(parsed.s), r |-> Null]

HandleDefinition(s) == HandleResult(ParseDefinition(s), "Parsed a function definition.")

HandleExtern(s) == HandleResult(ParseExtern(s), "Parsed an extern")

HandleTopLevelExpression(s) == HandleResult(ParseTopLevelExpr(s), "Parsed a top-level expr")

(* ---------------------------------------------------------------------- *)
(* Actions                                                                 *)
(* ---------------------------------------------------------------------- *)
Commit(s) ==
    /\ pos' = s.pos
    /\ LastChar' = s.LastChar
    /\ IdentifierStr' = s.IdentifierStr
    /\ NumVal' = s.NumVal
    /\ CurTok' = s.CurTok
    /\ BinopPrecedence' = s.BinopPrecedence
    /\ stderr' = s.stderr
    /\ built' = s.built
    /\ toks' = s.toks
    /\ trace' = s.trace

CommitResult(h) == Commit(h.s) /\ results' = Append(results, h.r)

(* the driver installs the table; a second call is a no-op *)
InstallBinaryOperators ==
    /\ pc /= "done"
    /\ Commit(InstallBinaryOperatorsOn(St))
    /\ UNCHANGED <<input, pc, results>>

(* the driver primes CurTok with the first token before it enters MainLoop *)
PrimeCurTok ==
    /\ pc = "start"
    /\ Commit(getNextToken(St))
    /\ pc' = "loop"
    /\ UNCHANGED <<input, results>>

MainLoop_tok_eof ==
    /\ pc = "loop"
    /\ CurTok = tok_eof
    /\ Commit(fprintf(St, "ready> "))
    /\ pc' = "done"
    /\ UNCHANGED <<input, results>>

(* variant: the top-level semicolon is left in place *)
MainLoop_semicolon_stay ==
    /\ pc = "loop"
    /\ CurTok = ";"
    /\ Commit(fprintf(St, "ready> "))
    /\ UNCHANGED <<input, pc, results>>

MainLoop_semicolon ==
    /\ pc = "loop"
    /\ CurTok = ";"
    /\ Commit(getNextToken(fprintf(St, "ready> ")))
    /\ UNCHANGED <<input, pc, results>>

MainLoop_tok_def ==
    /\ pc = "loop"
    /\ CurTok = tok_def
    /\ CommitResult(HandleDefinition(fprintf(St, "ready> ")))
    /\ UNCHANGED <<input, pc>>

MainLoop_tok_extern ==
    /\ pc = "loop"
    /\ CurTok = tok_extern
    /\ CommitResult(HandleExtern(fprintf(St, "ready> ")))
    /\ UNCHANGED <<input, pc>>

MainLoop_default ==
    /\ pc = "loop"
    /\ CurTok \notin {tok_eof, ";", tok_def, tok_extern}
    /\ CommitResult(HandleTopLevelExpression(fprintf(St, "ready> ")))
    /\ UNCHANGED <<input, pc>>

Next ==
    \/ InstallBinaryOperators
    \/ PrimeCurTok
    \/ MainLoop_tok_eof
    \/ MainLoop_semicolon
    \/ MainLoop_tok_def
    \/ MainLoop_tok_extern
    \/ MainLoop_default

(* ---------------------------------------------------------------------- *)
(* Inputs                                                                  *)
(* ---------------------------------------------------------------------- *)
RECURSIVE Flatten(_)
Flatten(ss) == IF ss = <<>> THEN <<>> ELSE Head(ss) \o Flatten(Tail(ss))

(* all sequences over S of length 0..n *)
SeqUpTo(S, n) == UNION {[1..k -> S] : k \in 0..n}

(* a few whole programs, so that every case of MainLoop is taken *)
SeedInputs ==
    { <<"d","e","f"," ","f","(",")"," ","1",";","e","x","t","e","r","n"," ","g","(","a",")",";","1">>,
      <<"1","+","2","*","3">>,
      <<"1","-","2","-","3">> }

(* the state after construction: statics zero- or default-initialised,    *)
(* LastChar = ' ', nothing read                                            *)
InitWith(inputs) ==
    /\ input \in inputs
    /\ pc = "start"
    /\ pos = 0
    /\ LastChar = " "
    /\ IdentifierStr = <<>>
    /\ NumVal = [m |-> 0, e |-> 0]
    /\ CurTok = "NUL"
    /\ BinopPrecedence = <<>>
    /\ stderr = <<>>
    /\ built = <<>>
    /\ toks = <<>>
    /\ results = <<>>
    /\ trace = <<>>

(* every sequence of up to MaxToks tokens, one space between them *)
MaxToks == 4

TokPool == { <<"1">>, <<"a">>, <<"(">>, <<")">>, <<"+">>,
             <<"d", "e", "f">>, <<"e", "x", "t", "e", "r", "n">> }

RECURSIVE Join(_, _)
Join(ss, sep) ==
    IF ss = <<>> THEN <<>>
    ELSE IF Len(ss) = 1 THEN ss[1]
    ELSE ss[1] \o sep \o Join(Tail(ss), sep)

TokInputs == { Join(ts, <<" ">>) : ts \in SeqUpTo(TokPool, MaxToks) }

Init == InitWith(TokInputs \cup SeedInputs)

Spec == Init /\ [][Next]_vars

(* ---------------------------------------------------------------------- *)
(* Operator chains p0 op1 p1 ... opn pn, written tight and with one space  *)
(* between the tokens                                                      *)
(* ---------------------------------------------------------------------- *)
MaxOps == 3

ExprPrims == {"1", "a"}

ExprOps == {"<", "+", "-", "*"}

Interleave(ps, ops) ==
    [i \in 1..(2 * Len(ops) + 1) |->
        IF i % 2 = 1 THEN ps[(i + 1) \div 2] ELSE ops[i \div 2]]

Spaced(str) ==
    [i \in 1..(2 * Len(str) - 1) |-> IF i % 2 = 1 THEN str[(i + 1) \div 2] ELSE " "]

ChainInputs ==
    UNION { { Interleave(ps, ops) : ps \in [1..(n + 1) -> ExprPrims], ops \in [1..n -> ExprOps] }
            : n \in 0..MaxOps }

ExprInputs == ChainInputs \cup { Spaced(c) : c \in { d \in ChainInputs : Len(d) <= 5 } }

InitExpr == InitWith(ExprInputs \cup SeedInputs)

SpecExpr == InitExpr /\ [][Next]_vars

(* ---------------------------------------------------------------------- *)
(* Lexical inputs: blanks and comments, runs of words, runs of digits and  *)
(* dots                                                                    *)
(* ---------------------------------------------------------------------- *)
MaxBlankLen == 4

MaxWordChunks == 3

MaxNumLen == 5

BlankChars == {" ", "\n", "\r", "#", "a", ";"}

BlankInputs == SeqUpTo(BlankChars, MaxBlankLen)

WordChunks == { <<"d", "e", "f">>, <<"e", "x", "t", "e", "r", "n">>, <<"f">>, <<"1">> }

LexPrefixes == { <<>>, <<" ">>, <<";">> }

WordTails == { <<>>, <<" ">>, <<"+">>, <<"(", ")">>, <<"#">> }

WordInputs ==
    { pre \o Flatten(w) \o tail :
        pre \in LexPrefixes, w \in SeqUpTo(WordChunks, MaxWordChunks), tail \in WordTails }

NumTails == { <<>>, <<"a">> }

NumInputs ==
    { pre \o n \o tail :
        pre \in { <<>>, <<";">> }, n \in SeqUpTo({"1", "2", "3", "."}, MaxNumLen),
        tail \in NumTails }

InitLex == InitWith(BlankInputs \cup WordInputs \cup NumInputs \cup SeedInputs)

SpecLex == InitLex /\ [][Next]_vars

(* ---------------------------------------------------------------------- *)
(* Calls: callee ( arg , ... , arg ) trailer, and calls whose argument     *)
(* list breaks off.  Each case carries its text and, written out by hand,  *)
(* the tree of every argument.                                             *)
(* ---------------------------------------------------------------------- *)
MaxArgs == 3

ArgPool ==
    { [txt |-> <<"1">>, node |-> [kind |-> "Number", value |-> [m |-> 1, e |-> 0]]],
      [txt |-> <<"a">>, node |-> [kind |-> "Variable", name |-> <<"a">>]],
      [txt |-> <<"2", "+", "3">>,
       node |-> [kind |-> "Binary", op |-> "+",
                 LHS |-> [kind |-> "Number", value |-> [m |-> 2, e |-> 0]],
                 RHS |-> [kind |-> "Number", value |-> [m |-> 3, e |-> 0]]]],
      [txt |-> <<"g", "(", ")">>, node |-> [kind |-> "Call", callee |-> <<"g">>, args |-> <<>>]] }

Callees == { <<"f">>, <<"f", "o", "o">> }

ArgSeps == { <<",">>, <<",", " ">> }

CallTrailers == { [txt |-> <<>>, tok |-> "tok_eof"], [txt |-> <<";">>, tok |-> ";"] }

RECURSIVE JoinArgs(_, _)
JoinArgs(args, sep) ==
    IF args = <<>> THEN <<>>
    ELSE IF Len(args) = 1 THEN args[1].txt
    ELSE args[1].txt \o sep \o JoinArgs(Tail(args), sep)

CallCases ==
    { [txt |-> callee \o <<"(">> \o JoinArgs(args, sep) \o <<")">> \o tr.txt,
       callee |-> callee,
       args |-> [i \in 1..Len(args) |-> args[i].node],
       next |-> tr.tok] :
        callee \in Callees, args \in SeqUpTo(ArgPool, MaxArgs), sep \in ArgSeps,
        tr \in CallTrailers }

(* what the argument list breaks off with: after '(' and after an argument *)
BadEndsAtOpen == { <<>>, <<",">>, <<";">>, <<",", ")">> }

BadEndsAfterArg == { <<>>, <<" ", "2">>, <<";">>, <<",">>, <<",", ")">> }

BadCallCases ==
    { [txt |-> callee \o <<"(">> \o JoinArgs(args, sep) \o bad, callee |-> callee] :
        callee \in Callees, args \in SeqUpTo(ArgPool, MaxArgs) \ {<<>>}, sep \in { <<",">> },
        bad \in BadEndsAfterArg }
    \cup { [txt |-> callee \o <<"(">> \o bad, callee |-> callee] :
             callee \in Callees, bad \in BadEndsAtOpen }

InitCall ==
    InitWith({c.txt : c \in CallCases} \cup {c.txt : c \in BadCallCases} \cup SeedInputs)

SpecCall == InitCall /\ [][Next]_vars

(* ---------------------------------------------------------------------- *)
(* Definitions def NAME(P1 ... Pk) BODY, and a failing construct followed  *)
(* by a well-formed one.  Each case carries its text and, written out by   *)
(* hand, the tree it stands for.                                           *)
(* ---------------------------------------------------------------------- *)
MaxParams == 3

BodyPool ==
    { [txt |-> <<"1">>, node |-> [kind |-> "Number", value |-> [m |-> 1, e |-> 0]]],
      [txt |-> <<"a", "+", "b">>,
       node |-> [kind |-> "Binary", op |-> "+",
                 LHS |-> [kind |-> "Variable", name |-> <<"a">>],
                 RHS |-> [kind |-> "Variable", name |-> <<"b">>]]],
      [txt |-> <<"g", "(", "a", ")">>,
       node |-> [kind |-> "Call", callee |-> <<"g">>,
                 args |-> << [kind |-> "Variable", name |-> <<"a">>] >>]] }

DefCases ==
    { [txt |-> <<"d", "e", "f", " ">> \o name \o <<"(">> \o Join(params, <<" ">>)
                  \o <<")", " ">> \o body.txt \o tr,
       name |-> name, params |-> params, body |-> body.node] :
        name \in Callees, params \in SeqUpTo({ <<"a">>, <<"b">> }, MaxParams),
        body \in BodyPool, tr \in { <<>>, <<";">> } }

(* constructs that fail on their last token; ntoks counts their tokens *)
BadPool ==
    { [txt |-> <<")">>, ntoks |-> 1],
      [txt |-> <<"1", "+", ")">>, ntoks |-> 3],
      [txt |-> <<"(", "1", ";">>, ntoks |-> 3],
      [txt |-> <<"f", "o", "o", "(", "1", " ", "2">>, ntoks |-> 4],
      [txt |-> <<"d", "e", "f", " ", "1">>, ntoks |-> 2],
      [txt |-> <<"d", "e", "f", " ", "f", " ", "1">>, ntoks |-> 3],
      [txt |-> <<"d", "e", "f", " ", "f", "(", "a", ")", " ", ")">>, ntoks |-> 6],
      [txt |-> <<"e", "x", "t", "e", "r", "n", " ", "1">>, ntoks |-> 2],
      [txt |-> <<"e", "x", "t", "e", "r", "n", " ", "f", "(", "a", ",">>, ntoks |-> 5] }

WellPool ==
    { [txt |-> <<"1">>, first |-> "tok_number",
       node |-> [kind |-> "Function",
                 prototype |-> [kind |-> "Prototype", name |-> <<>>, args |-> <<>>],
                 body |-> [kind |-> "Number", value |-> [m |-> 1, e |-> 0]]]],
      [txt |-> <<"a", "+", "1">>, first |-> "tok_identifier",
       node |-> [kind |-> "Function",
                 prototype |-> [kind |-> "Prototype", name |-> <<>>, args |-> <<>>],
                 body |-> [kind |-> "Binary", op |-> "+",
                           LHS |-> [kind |-> "Variable", name |-> <<"a">>],
                           RHS |-> [kind |-> "Number", value |-> [m |-> 1, e |-> 0]]]]],
      [txt |-> <<"g", "(", "1", ")">>, first |-> "tok_identifier",
       node |-> [kind |-> "Function",
                 prototype |-> [kind |-> "Prototype", name |-> <<>>, args |-> <<>>],
                 body |-> [kind |-> "Call", callee |-> <<"g">>,
                           args |-> << [kind |-> "Number", value |-> [m |-> 1, e |-> 0]] >>]]],
      [txt |-> <<"d", "e", "f", " ", "f", "(", "a", ")", " ", "a">>, first |-> "tok_def",
       node |-> [kind |-> "Function",
                 prototype |-> [kind |-> "Prototype", name |-> <<"f">>, args |-> << <<"a">> >>],
                 body |-> [kind |-> "Variable", name |-> <<"a">>]]],
      [txt |-> <<"e", "x", "t", "e", "r", "n", " ", "g", "(", "a", " ", "b", ")">>,
       first |-> "tok_extern",
       node |-> [kind |-> "Prototype", name |-> <<"g">>, args |-> << <<"a">>, <<"b">> >>]] }

RecoveryCases ==
    { [txt |-> bad.txt \o sep \o well.txt \o tr,
       ntoks |-> bad.ntoks, first |-> well.first, node |-> well.node] :
        bad \in BadPool, sep \in { <<" ">>, <<"\n">> }, well \in WellPool,
        tr \in { <<>>, <<";">>, <<" ", ")">> } }

InitDef ==
    InitWith({c.txt : c \in DefCases} \cup {c.txt : c \in RecoveryCases} \cup SeedInputs)

SpecDef == InitDef /\ [][Next]_vars

(* The driver is a sequential loop of a running process: a step that can   *)
(* be taken is taken, which is WF_vars(Next).  For the return at the end   *)
(* of input it is stated as such.  For the steps that lex and parse it is  *)
(* written out by its definition,                                          *)
(* []<>~ENABLED <<Next>>_vars \/ []<><<Next>>_vars, which spares TLC the    *)
(* evaluation of ENABLED on them: a step is enabled exactly while          *)
(* pc /= "done" (PrimeCurTok at "start", one of the cases of MainLoop at   *)
(* "loop", each changing pc or stderr), and under [][Next]_vars the steps  *)
(* that change vars are the Next steps.                                    *)
Fairness ==
    /\ WF_vars(MainLoop_tok_eof)
    /\ ([]<>(pc = "done")) \/ ([]<><<TRUE>>_vars)

SpecLive == InitDef /\ [][Next]_vars /\ Fairness

(* ---------------------------------------------------------------------- *)
(* Prototypes: extern followed by the sequences of up to MaxProtoToks      *)
(* tokens, and def followed by the shorter ones, one space between tokens  *)
(* ---------------------------------------------------------------------- *)
MaxProtoToks == 5

ProtoPool == { <<"f">>, <<"a">>, <<"(">>, <<")">>, <<",">>, <<"d", "e", "f">> }

(* the keyword and the second name are tried in the place of the name only *)
ProtoRest == ProtoPool \ { <<"d", "e", "f">>, <<"f">> }

ProtoInputs ==
    { <<"e", "x", "t", "e", "r", "n", " ">> \o Join(<<h>> \o ts, <<" ">>) :
        h \in ProtoPool, ts \in SeqUpTo(ProtoRest, MaxProtoToks - 1) }
    \cup
    { <<"d", "e", "f", " ">> \o Join(ts, <<" ">>) :
        ts \in SeqUpTo(ProtoPool, MaxProtoToks - 2) }

InitProto == InitWith(ProtoInputs \cup SeedInputs)

SpecProto == InitProto /\ [][Next]_vars

(* ====================================================================== *)
(* Properties                                                              *)
(* ====================================================================== *)
(* the trees and the precedences the specification states, written out    *)
(* without the parser                                                     *)
Strip(str) == SelectSeq(str, LAMBDA c : c /= " ")

Num(n) == [kind |-> "Number", value |-> [m |-> n, e |-> 0]]

Var(name) == [kind |-> "Variable", name |-> name]

Bin(op, l, r) == [kind |-> "Binary", op |-> op, LHS |-> l, RHS |-> r]

Anon(body) == [kind |-> "Function",
               prototype |-> [kind |-> "Prototype", name |-> <<>>, args |-> <<>>],
               body |-> body]

Leaf(c) == CASE c = "1" -> Num(1) [] c = "2" -> Num(2) [] c = "3" -> Num(3)
             [] c = "a" -> Var(<<"a">>) [] c = "b" -> Var(<<"b">>)

SpecPrec(op) == CASE op = "<" -> 10 [] op = "+" -> 20 [] op = "-" -> 20 [] op = "*" -> 40

IsChain(c) ==
    /\ Len(c) % 2 = 1
    /\ \A i \in 1..Len(c) : IF i % 2 = 1 THEN c[i] \in {"1", "2", "3", "a", "b"}
                                          ELSE c[i] \in {"<", "+", "-", "*"}

Installed == DOMAIN BinopPrecedence /= {}

FirstIteration == pc = "loop" /\ results = <<>>

(* the step ran one of the Handle* functions, which report their result *)
HandlerRan == Len(results') = Len(results) + 1

(* C1: with the table installed, an expression p0 op1 p1 op2 p2 whose      *)
(* second operator has the higher precedence parses to                     *)
(* BinaryOp{op1, p0, BinaryOp{op2, p1, p2}}                                *)
C1_TighterTrailingOperator ==
    [][ LET c == Strip(input)
        IN  (FirstIteration /\ Installed /\ IsChain(c) /\ Len(c) = 5
                /\ SpecPrec(c[4]) > SpecPrec(c[2]))
            => results' = <<Anon(Bin(c[2], Leaf(c[1]), Bin(c[4], Leaf(c[3]), Leaf(c[5]))))>>
      ]_vars

C1_Witness ==
    /\ input = <<"1", "+", "2", "*", "3">>
    /\ results = <<Anon(Bin("+", Num(1), Bin("*", Num(2), Num(3))))>>

RECURSIVE LeftFold(_, _)
LeftFold(c, n) == IF n = 0 THEN Leaf(c[1])
                  ELSE Bin(c[2 * n], LeftFold(c, n - 1), Leaf(c[2 * n + 1]))

(* C2: with the table installed, a chain whose operators all have the same *)
(* precedence parses left-associatively                                    *)
C2_LeftAssociative ==
    [][ LET c == Strip(input)
        IN  (FirstIteration /\ Installed /\ IsChain(c) /\ Len(c) >= 3
                /\ \A i, j \in 1..(Len(c) \div 2) : SpecPrec(c[2 * i]) = SpecPrec(c[2 * j]))
            => results' = <<Anon(LeftFold(c, Len(c) \div 2))>>
      ]_vars

C2_Witness ==
    /\ input = <<"1", "-", "2", "-", "3">>
    /\ results = <<Anon(Bin("-", Bin("-", Num(1), Num(2)), Num(3)))>>

C2_WitnessMixed ==
    /\ input = <<"a", "+", "1", "-", "a", "+", "1">>
    /\ results = <<Anon(Bin("+", Bin("-", Bin("+", Var(<<"a">>), Num(1)), Var(<<"a">>)), Num(1)))>>

(* ---------------------------------------------------------------------- *)
(* the character stream still to be lexed: the lookahead, then the unread  *)
(* input                                                                   *)
Remaining == (IF LastChar = "EOF" THEN <<>> ELSE <<LastChar>>)
                \o SubSeq(input, pos + 1, Len(input))

Letters == {"a", "b", "d", "e", "f", "g", "n", "o", "r", "t", "x"}

Digits == {"0", "1", "2", "3", "4", "5", "6", "7", "8", "9"}

Blanks == {" ", "\t", "\n", "\r"}

RECURSIVE RunLen(_, _)
RunLen(str, S) == IF str /= <<>> /\ Head(str) \in S THEN 1 + RunLen(Tail(str), S) ELSE 0

Drop(str, n) == SubSeq(str, n + 1, Len(str))

DropBlanks(str) == Drop(str, RunLen(str, Blanks))

OneToken == Len(toks') = Len(toks) + 1

RECURSIVE BlankFrom(_, _, _)
BlankFrom(str, i, inComment) ==
    IF i > Len(str) THEN TRUE
    ELSE IF inComment THEN BlankFrom(str, i + 1, str[i] \notin {"\n", "\r"})
    ELSE IF str[i] = "#" THEN BlankFrom(str, i + 1, TRUE)
    ELSE str[i] \in Blanks /\ BlankFrom(str, i + 1, FALSE)

IsBlank(str) == BlankFrom(str, 1, FALSE)

(* C8: on an input of only whitespace and '#' comments the one token ever  *)
(* produced is EndOfInput and no Handle* function runs                     *)
C8_BlankInputOnlyEof ==
    IsBlank(input) =>
        /\ results = <<>>
        /\ toks = IF pc = "start" THEN <<>> ELSE <<"tok_eof">>
        /\ pc /= "start" => CurTok = "tok_eof"
        /\ \A i \in 1..Len(stderr) : stderr[i] = "ready> "

C8_Witness ==
    /\ input = <<" ", "#", "a", "\r">>
    /\ pc = "done"
    /\ toks = <<"tok_eof">>
    /\ results = <<>>

C8_WitnessCommentAtEof ==
    /\ input = <<"\n", "#", " ", "a">>
    /\ pc = "done"
    /\ toks = <<"tok_eof">>

(* C9: a gettok call that starts (after whitespace) at a letter takes the  *)
(* longest alphanumeric run as one token, a keyword only if the whole run  *)
(* is "def" or "extern", and leaves the character after the run as the     *)
(* lookahead                                                               *)
C9_MaximalMunchIdentifier ==
    [][ LET rem == DropBlanks(Remaining)
            n == RunLen(rem, Letters \cup Digits)
            text == SubSeq(rem, 1, n)
            kind == IF text = <<"d", "e", "f">> THEN "tok_def"
                    ELSE IF text = <<"e", "x", "t", "e", "r", "n">> THEN "tok_extern"
                    ELSE "tok_identifier"
        IN  (OneToken /\ rem /= <<>> /\ rem[1] \in Letters)
            => /\ IdentifierStr' = text
               /\ CurTok' = kind
               /\ toks' = Append(toks, kind)
               /\ Remaining' = Drop(rem, n)
      ]_vars

C9_Witness ==
    /\ input = <<"d", "e", "f", "f", "+">>
    /\ toks = <<"tok_identifier">>
    /\ IdentifierStr = <<"d", "e", "f", "f">>
    /\ LastChar = "+"

C9_WitnessDigit ==
    /\ input = <<"d", "e", "f", "1">>
    /\ toks = <<"tok_identifier">>
    /\ IdentifierStr = <<"d", "e", "f", "1">>

C9_WitnessKeyword ==
    /\ input = <<";", "d", "e", "f", "(", ")">>
    /\ toks = <<";", "tok_def">>
    /\ LastChar = "("

(* C10: a gettok call that starts (after whitespace) at a digit or '.'     *)
(* takes the longest run of digits and dots as exactly one Number token,   *)
(* however many dots it holds                                              *)
C10_LenientNumber ==
    [][ LET rem == DropBlanks(Remaining)
            n == RunLen(rem, Digits \cup {"."})
        IN  (OneToken /\ rem /= <<>> /\ rem[1] \in Digits \cup {"."})
            => /\ CurTok' = "tok_number"
               /\ toks' = Append(toks, "tok_number")
               /\ Remaining' = Drop(rem, n)
      ]_vars

C10_Witness ==
    /\ input = <<"1", ".", "2", ".", "3">>
    /\ toks = <<"tok_number">>
    /\ NumVal = [m |-> 12, e |-> 1]
    /\ LastChar = "EOF"

C10_WitnessLoneDot ==
    /\ input = <<".", "a">>
    /\ toks = <<"tok_number">>
    /\ NumVal = [m |-> 0, e |-> 0]
    /\ LastChar = "a"

Call(callee, args) == [kind |-> "Call", callee |-> callee, args |-> args]

(* C3: an identifier followed by '(' parses to a Call of that identifier   *)
(* with exactly the comma-separated arguments, in source order, each a     *)
(* full expression (none for "()"), and the cursor ends on the token after *)
(* the closing ')'                                                         *)
C3_CallArgumentsInOrder ==
    [][ (FirstIteration /\ Installed)
        => \A c \in CallCases :
              c.txt = input
              => /\ results' = <<Anon(Call(c.callee, c.args))>>
                 /\ CurTok' = c.next
      ]_vars

C3_Witness ==
    /\ input = <<"f", "o", "o", "(", "1", ",", " ", "2", "+", "3", ")">>
    /\ results = <<Anon(Call(<<"f", "o", "o">>, <<Num(1), Bin("+", Num(2), Num(3))>>))>>
    /\ CurTok = "tok_eof"

C3_WitnessEmpty ==
    /\ input = <<"f", "o", "o", "(", ")", ";">>
    /\ results = <<Anon(Call(<<"f", "o", "o">>, <<>>))>>
    /\ CurTok = ";"

UnexpectedTokenMessages ==
    { "Unknown token when expecting an expression.",
      "Expected ')' or ',' in argument list" }

(* C5: a call whose argument list is not terminated fails with an          *)
(* unexpected-token error and no result, and no Call node for that callee  *)
(* is constructed                                                          *)
C5_UnterminatedCallFails ==
    [][ (FirstIteration /\ HandlerRan)
        => \A c \in BadCallCases :
              c.txt = input
              => /\ results' = <<Null>>
                 /\ stderr' /= <<>>
                 /\ stderr'[Len(stderr')] \in UnexpectedTokenMessages
                 /\ \A i \in 1..Len(built') :
                       ~(built'[i].kind = "Call" /\ built'[i].callee = c.callee)
      ]_vars

C5_Witness ==
    /\ input = <<"f", "o", "o", "(">>
    /\ results = <<Null>>
    /\ stderr = <<"ready> ", "Unknown token when expecting an expression.">>
    /\ built = <<>>

C5_WitnessBadSeparator ==
    /\ input = <<"f", "(", "1", " ", "2">>
    /\ results = <<Null>>
    /\ stderr[Len(stderr)] = "Expected ')' or ',' in argument list"

Proto(name, args) == [kind |-> "Prototype", name |-> name, args |-> args]

Func(prototype, body) == [kind |-> "Function", prototype |-> prototype, body |-> body]

(* C4: def NAME(P1 ... Pk) BODY parses to                                  *)
(* Function{Prototype{NAME, [P1..Pk]}, tree(BODY)}, the parameters in      *)
(* source order with duplicates kept                                       *)
C4_DefinitionShape ==
    [][ (FirstIteration /\ Installed)
        => \A c \in DefCases :
              c.txt = input => results' = <<Func(Proto(c.name, c.params), c.body)>>
      ]_vars

C4_Witness ==
    /\ input = <<"d", "e", "f", " ", "f", "o", "o", "(", "a", " ", "b", ")", " ", "a", "+", "b">>
    /\ results = <<Func(Proto(<<"f", "o", "o">>, << <<"a">>, <<"b">> >>),
                        Bin("+", Var(<<"a">>), Var(<<"b">>)))>>

C4_WitnessDuplicate ==
    /\ input = <<"d", "e", "f", " ", "f", "(", "a", " ", "a", ")", " ", "1">>
    /\ results = <<Func(Proto(<<"f">>, << <<"a">>, <<"a">> >>), Num(1))>>

ParseErrorMessages ==
    { "expected ')'",
      "Expected ')' or ',' in argument list",
      "Unknown token when expecting an expression.",
      "Expected function name in prototype",
      "Expected '(' in prototype",
      "Expected ')' in prototype" }

(* a Parse* function returned nullptr during the step: each such return    *)
(* starts at a LogError call                                               *)
SubParseFailed ==
    \E i \in (Len(stderr) + 1)..Len(stderr') : stderr'[i] \in ParseErrorMessages

(* C6: when a sub-parse fails during a top-level parse, the top-level      *)
(* parse returns no result, and no Function is made                        *)
C6_FailureShortCircuits ==
    [][ (HandlerRan /\ SubParseFailed)
        => /\ results'[Len(results')] = Null
           /\ \A i \in (Len(built) + 1)..Len(built') : built'[i].kind /= "Function"
      ]_vars

C6_Witness ==
    /\ input = <<"d", "e", "f", " ", "a", " ", "(", " ", ")">>
    /\ results = <<Null>>
    /\ built = <<Proto(<<"a">>, <<>>)>>
    /\ stderr = <<"ready> ", "Unknown token when expecting an expression.">>

C6_WitnessDeep ==
    /\ input = <<"(", " ", "a", " ", "+", " ", ")">>
    /\ Installed
    /\ results = <<Null>>
    /\ stderr = <<"ready> ", "Unknown token when expecting an expression.">>

(* C7: after a failing top-level parse the cursor is exactly one token     *)
(* past the token the parse failed on, and the well-formed construct that  *)
(* starts there is parsed by the next iteration                            *)
C7_Recovery ==
    [][ (pc = "loop" /\ Installed /\ HandlerRan)
        => \A c \in RecoveryCases :
              c.txt = input
              => /\ results = <<>>
                    => /\ results' = <<Null>>
                       /\ Len(toks') = c.ntoks + 1
                       /\ CurTok' = c.first
                       /\ pc' = "loop"
                 /\ results = <<Null>> => results' = <<Null, c.node>>
      ]_vars

C7_Witness ==
    /\ input = <<"1", "+", ")", " ", "d", "e", "f", " ", "f", "(", "a", ")", " ", "a", ";">>
    /\ results = <<Null, Func(Proto(<<"f">>, << <<"a">> >>), Var(<<"a">>))>>
    /\ CurTok = ";"

C7_WitnessExtern ==
    /\ input = <<"e", "x", "t", "e", "r", "n", " ", "f", "(", "a", ",", " ", "a", "+", "1">>
    /\ results = <<Null, Anon(Bin("+", Var(<<"a">>), Num(1)))>>

(* ---------------------------------------------------------------------- *)
(* The precedence table and GetTokPrecendence                              *)
(* ---------------------------------------------------------------------- *)
(* C11: once the table is installed, no step adds, removes or alters an    *)
(* entry of it                                                             *)
C11_TableNeverChanges ==
    [][ Installed => BinopPrecedence' = BinopPrecedence ]_vars

(* the events of the GetTokPrecendence calls made so far *)
PrecedenceCalls == { i \in 1..Len(trace) : trace[i].ev = "GetTokPrecendence" }

IsSymbol(t) == t \notin {"tok_eof", "tok_def", "tok_extern", "tok_identifier", "tok_number"}

(* the value for a token by an installed table: the entry when the token   *)
(* is a symbol with a positive entry, -1 otherwise                         *)
TableValue(e) ==
    IF IsSymbol(e.tok) /\ e.tok \in DOMAIN e.table /\ e.table[e.tok] > 0
    THEN e.table[e.tok]
    ELSE -1

(* C12 as stated: every call made before the table is installed returns    *)
(* -2 whatever the current token is, and a call made after returns the     *)
(* table value of a symbol with a positive entry and -1 otherwise          *)
C12_UninstalledAlwaysSignalled ==
    \A i \in PrecedenceCalls :
        IF DOMAIN trace[i].table = {} THEN trace[i].r = -2
        ELSE trace[i].r = TableValue(trace[i])

(* C12, amended: before the table is installed a call returns -2 exactly   *)
(* when the current token is a single-character symbol, and -1 for the     *)
(* end of input, keyword, identifier and number tokens; after it, the      *)
(* table value of a symbol with a positive entry and -1 otherwise          *)
C12_UninstalledSignalledForSymbols ==
    \A i \in PrecedenceCalls :
        IF DOMAIN trace[i].table = {}
        THEN trace[i].r = (IF IsSymbol(trace[i].tok) THEN -2 ELSE -1)
        ELSE trace[i].r = TableValue(trace[i])

C12_Witness ==
    \E i \in PrecedenceCalls :
        /\ DOMAIN trace[i].table = {}
        /\ trace[i].tok = "tok_eof"
        /\ trace[i].r = -1

C12_WitnessSymbol ==
    \E i \in PrecedenceCalls :
        /\ DOMAIN trace[i].table = {}
        /\ trace[i].tok = "+"
        /\ trace[i].r = -2

C12_WitnessInstalled ==
    \E i, j \in PrecedenceCalls :
        /\ trace[i].tok = "+" /\ trace[i].r = 20
        /\ DOMAIN trace[j].table /= {} /\ trace[j].tok = ")" /\ trace[j].r = -1

(* C13: an expression with an operator after its first primary, parsed     *)
(* while the table is not installed, gives no result                       *)
C13_UninstalledFails ==
    [][ (FirstIteration /\ HandlerRan /\ ~Installed
         /\ IsChain(Strip(input)) /\ Len(Strip(input)) >= 3)
        => results' = <<Null>>
      ]_vars

(* the nodes made by the step *)
NewlyBuilt == { i \in 1..Len(built') : i > Len(built) }

(* C14: the operator of every BinaryOp node made is a key of the table     *)
(* with a positive precedence when the node is made, so no node is made    *)
(* for an absent symbol or while the table is not installed                *)
C14_BinaryOpsAreTableOperators ==
    [][ \A i \in NewlyBuilt :
            built'[i].kind = "Binary"
            => /\ built'[i].op \in DOMAIN BinopPrecedence
               /\ BinopPrecedence[built'[i].op] > 0
               /\ BinopPrecedence'[built'[i].op] = BinopPrecedence[built'[i].op]
      ]_vars

C14_Witness ==
    /\ input = <<"1", " ", "+", " ", "a">>
    /\ Installed
    /\ built = <<Num(1), Var(<<"a">>), Bin("+", Num(1), Var(<<"a">>)),
                 Proto(<<>>, <<>>), Anon(Bin("+", Num(1), Var(<<"a">>)))>>

C14_WitnessUninstalled ==
    /\ input = <<"1", " ", "+", " ", "a">>
    /\ ~Installed
    /\ pc = "done"
    /\ \A i \in 1..Len(built) : built[i].kind /= "Binary"

C14_WitnessAbsentSymbol ==
    /\ input = <<"1", " ", ")", " ", "a">>
    /\ Installed
    /\ pc = "done"
    /\ \A i \in 1..Len(built) : built[i].kind /= "Binary"

(* ---------------------------------------------------------------------- *)
(* Prototypes                                                              *)
(* ---------------------------------------------------------------------- *)
(* the words of a text: the runs between single spaces *)
RECURSIVE Words(_, _, _)
Words(str, i, word) ==
    IF i > Len(str) THEN <<word>>
    ELSE IF str[i] = " " THEN <<word>> \o Words(str, i + 1, <<>>)
    ELSE Words(str, i + 1, Append(word, str[i]))

IsName(w) == w \in { <<"f">>, <<"a">> }

TokenOf(w) == IF IsName(w) THEN "tok_identifier"
              ELSE IF w = <<"d", "e", "f">> THEN "tok_def"
              ELSE w[1]

(* the number of names in a row from word i on *)
RECURSIVE NameRun(_, _)
NameRun(ws, i) == IF i <= Len(ws) /\ IsName(ws[i]) THEN 1 + NameRun(ws, i + 1) ELSE 0

(* Identifier '(' Identifier* ')' *)
IsPrototype(ws) ==
    /\ Len(ws) >= 3
    /\ IsName(ws[1])
    /\ ws[2] = <<"(">>
    /\ 3 + NameRun(ws, 3) <= Len(ws)
    /\ ws[3 + NameRun(ws, 3)] = <<")">>

PrototypeOf(ws) == Proto(ws[1], SubSeq(ws, 3, 2 + NameRun(ws, 3)))

AfterPrototype(ws) ==
    IF 4 + NameRun(ws, 3) <= Len(ws) THEN TokenOf(ws[4 + NameRun(ws, 3)]) ELSE "tok_eof"

ProtoWords == IF input = <<>> THEN <<>> ELSE Words(input, 1, <<>>)

IsProtoCase ==
    /\ Len(ProtoWords) >= 1
    /\ ProtoWords[1] \in { <<"e", "x", "t", "e", "r", "n">>, <<"d", "e", "f">> }
    /\ \A i \in 2..Len(ProtoWords) : ProtoWords[i] \in ProtoPool

(* C15: ParsePrototype makes the Prototype exactly when the tokens from    *)
(* the cursor are Identifier '(' Identifier* ')'; it makes none when the   *)
(* name is not an Identifier, '(' is missing or the run of parameter       *)
(* names does not end at ')'; on success the cursor is on the token after  *)
(* ')'                                                                     *)
C15_PrototypeShape ==
    [][ (FirstIteration /\ HandlerRan /\ IsProtoCase)
        => IF IsPrototype(Tail(ProtoWords))
           THEN /\ built' /= <<>>
                /\ built'[1] = PrototypeOf(Tail(ProtoWords))
                /\ ProtoWords[1] = <<"e", "x", "t", "e", "r", "n">>
                   => /\ results' = <<PrototypeOf(Tail(ProtoWords))>>
                      /\ CurTok' = AfterPrototype(Tail(ProtoWords))
           ELSE /\ results' = <<Null>>
                /\ built' = <<>>
                /\ stderr'[Len(stderr') ] \in { "Expected function name in prototype",
                                                "Expected '(' in prototype",
                                                "Expected ')' in prototype" }
      ]_vars

C15_Witness ==
    /\ input = <<"e", "x", "t", "e", "r", "n", " ", "f", " ", "(", " ", "a", " ", "a", " ", ")">>
    /\ results = <<Proto(<<"f">>, << <<"a">>, <<"a">> >>)>>
    /\ CurTok = "tok_eof"

C15_WitnessComma ==
    /\ input = <<"e", "x", "t", "e", "r", "n", " ", "f", " ", "(", " ", "a", " ", ",", " ", "a">>
    /\ results = <<Null>>
    /\ stderr = <<"ready> ", "Expected ')' in prototype">>

C15_WitnessKeywordName ==
    /\ input = <<"d", "e", "f", " ", "d", "e", "f", " ", "(", " ", ")">>
    /\ results = <<Null>>
    /\ stderr = <<"ready> ", "Expected function name in prototype">>

(* ---------------------------------------------------------------------- *)
(* The end of an operator chain, and parentheses                           *)
(* ---------------------------------------------------------------------- *)
(* a GetTokPrecendence event whose token is not an operator: a token that  *)
(* is no symbol, or a symbol that is none of the four operators asked of   *)
(* an installed table                                                      *)
NonOperator(e) ==
    /\ e.ev = "GetTokPrecendence"
    /\ \/ ~IsSymbol(e.tok)
       \/ DOMAIN e.table /= {} /\ e.tok \notin {"<", "+", "-", "*"}

BinOpRHSCalls == { i \in 1..Len(trace) : trace[i].ev = "ParseBinOpRHS" }

(* C16: a call ParseBinOpRHS(minPrec, lhs), minPrec >= 0, made when the     *)
(* current token is the end of input or another token that is not an       *)
(* operator, returns lhs at once: its next events are the precedence query *)
(* and the return of lhs, with the current token, the lookahead character, *)
(* the read position and the number of nodes as they were at the call      *)
C16_NonOperatorReturnsLhs ==
    \A i \in BinOpRHSCalls :
        /\ trace[i].exprPrec >= 0
        /\ i + 1 <= Len(trace)
        /\ NonOperator(trace[i + 1])
           => /\ i + 2 <= Len(trace)
              /\ trace[i + 2].ev = "return"
              /\ trace[i + 2].r = trace[i].LHS
              /\ trace[i + 2].tok = trace[i].tok
              /\ trace[i + 2].pos = trace[i].pos
              /\ trace[i + 2].LastChar = trace[i].LastChar
              /\ trace[i + 2].built = trace[i].built

C16_Witness ==
    \E i \in BinOpRHSCalls :
        /\ trace[i].tok = "tok_eof"
        /\ trace[i].LHS = Num(1)
        /\ trace[i + 2].ev = "return"
        /\ CurTok = "tok_eof"

C16_WitnessSymbol ==
    \E i \in BinOpRHSCalls :
        /\ trace[i].tok = ")"
        /\ trace[i + 1].ev = "GetTokPrecendence"
        /\ DOMAIN trace[i + 1].table /= {}
        /\ trace[i + 2].ev = "return"

C16_WitnessKeyword ==
    \E i \in BinOpRHSCalls :
        /\ trace[i].tok = "tok_def"
        /\ trace[i + 2].ev = "return"

(* parenthesised expressions: an inner expression inside 1..MaxNest pairs  *)
(* of parentheses, alone or as an operand, and the ones that break off     *)
MaxNest == 2

InnerPool ==
    { [txt |-> <<"1">>, node |-> Num(1), ntoks |-> 1],
      [txt |-> <<"a">>, node |-> Var(<<"a">>), ntoks |-> 1],
      [txt |-> <<"1", "+", "2">>, node |-> Bin("+", Num(1), Num(2)), ntoks |-> 3],
      [txt |-> <<"a", " ", "<", " ", "1">>, node |-> Bin("<", Var(<<"a">>), Num(1)), ntoks |-> 3],
      [txt |-> <<"1", "+", "2", "*", "3">>,
       node |-> Bin("+", Num(1), Bin("*", Num(2), Num(3))), ntoks |-> 5],
      [txt |-> <<"1", "-", "2", "-", "3">>,
       node |-> Bin("-", Bin("-", Num(1), Num(2)), Num(3)), ntoks |-> 5] }

RECURSIVE Repeat(_, _)
Repeat(str, n) == IF n = 0 THEN <<>> ELSE str \o Repeat(str, n - 1)

Nested(in, d) == Repeat(<<"(">>, d) \o in.txt \o Repeat(<<")">>, d)

ParenOps == {"<", "+", "-", "*"}

ParenOperands == {"3", "b"}

(* well-formed: the text and the tree it stands for *)
ParenCases ==
    { [txt |-> Nested(in, d), node |-> in.node] :
        in \in InnerPool, d \in 1..MaxNest }
    \cup
    { [txt |-> Nested(in, d) \o <<op, p>>, node |-> Bin(op, in.node, Leaf(p))] :
        in \in InnerPool, d \in 1..MaxNest, op \in ParenOps, p \in ParenOperands }
    \cup
    { [txt |-> <<p, op>> \o Nested(in, d), node |-> Bin(op, Leaf(p), in.node)] :
        in \in InnerPool, d \in 1..MaxNest, op \in ParenOps, p \in ParenOperands }

(* what follows the inner expression in the place of ')' *)
NotClose ==
    { [txt |-> <<>>, tok |-> "tok_eof"],
      [txt |-> <<";">>, tok |-> ";"],
      [txt |-> <<",">>, tok |-> ","],
      [txt |-> <<" ", "2">>, tok |-> "tok_number"],
      [txt |-> <<" ", "b">>, tok |-> "tok_identifier"],
      [txt |-> <<" ", "d", "e", "f">>, tok |-> "tok_def"] }

(* the inner expression is complete and the token after it is not ')' *)
UnclosedCases ==
    { [txt |-> Repeat(<<"(">>, d) \o in.txt \o Repeat(<<")">>, d - 1) \o nc.txt,
       ntoks |-> d + in.ntoks + (d - 1),
       tok |-> nc.tok] :
        in \in InnerPool, d \in 1..MaxNest, nc \in NotClose }

(* a token that starts no primary, where a primary is due *)
NotPrimary ==
    { [txt |-> <<>>, tok |-> "tok_eof"],
      [txt |-> <<")">>, tok |-> ")"],
      [txt |-> <<"+">>, tok |-> "+"],
      [txt |-> <<";">>, tok |-> ";"],
      [txt |-> <<"d", "e", "f">>, tok |-> "tok_def"],
      [txt |-> <<"e", "x", "t", "e", "r", "n">>, tok |-> "tok_extern"] }

PrimaryDue ==
    { [txt |-> <<"(">>, ntoks |-> 1],
      [txt |-> <<"(", "(">>, ntoks |-> 2],
      [txt |-> <<"1", "+">>, ntoks |-> 2],
      [txt |-> <<"(", "a", "*">>, ntoks |-> 3],
      [txt |-> <<"f", "(", "1", ",">>, ntoks |-> 4] }

BadPrimaryCases ==
    { [txt |-> pd.txt \o <<" ">> \o np.txt, ntoks |-> pd.ntoks, tok |-> np.tok] :
        pd \in PrimaryDue, np \in NotPrimary }

InitParen ==
    InitWith({ c.txt : c \in ParenCases \cup UnclosedCases \cup BadPrimaryCases }
             \cup SeedInputs)

SpecParen == InitParen /\ [][Next]_vars

(* the first handler step on a parenthesised case *)
C17_Grouping ==
    [][ (FirstIteration /\ HandlerRan /\ Installed)
        => /\ \A c \in ParenCases :
                 c.txt = input => results' = <<Anon(c.node)>> /\ CurTok' = "tok_eof"
           /\ \A c \in UnclosedCases :
                 c.txt = input
                 => /\ results' = <<Null>>
                    /\ stderr'[Len(stderr')] = "expected ')'"
                    /\ Len(toks') = c.ntoks + 2
                    /\ toks'[c.ntoks + 1] = c.tok
                    /\ toks'[c.ntoks + 2] = "tok_eof"
           /\ \A c \in BadPrimaryCases :
                 c.txt = input
                 => /\ results' = <<Null>>
                    /\ stderr'[Len(stderr')] = "Unknown token when expecting an expression."
                    /\ Len(toks') = c.ntoks + 2
                    /\ toks'[c.ntoks + 1] = c.tok
                    /\ toks'[c.ntoks + 2] = "tok_eof"
      ]_vars

(* the failures where they are raised: "expected ')'" comes right after    *)
(* the inner expression returned, at a token that is not ')' and is still  *)
(* the current one; a ParsePrimary call at a token that is not a number,   *)
(* an identifier or '(' is followed at once by its error, at that token    *)
C17_FailuresConsumeNothing ==
    \A i \in 1..Len(trace) :
        /\ (trace[i].ev = "LogError" /\ trace[i].str = "expected ')'")
           => /\ i > 1
              /\ trace[i - 1].ev = "return"
              /\ trace[i - 1].tok = trace[i].tok
              /\ trace[i].tok /= ")"
        /\ (trace[i].ev = "ParsePrimary"
              /\ trace[i].tok \notin {"tok_number", "tok_identifier", "("})
           => /\ i + 1 <= Len(trace)
              /\ trace[i + 1].ev = "LogError"
              /\ trace[i + 1].str = "Unknown token when expecting an expression."
              /\ trace[i + 1].tok = trace[i].tok

(* C17: ( e ) parses to the tree of e, with no node of its own, and is one *)
(* primary, so that (1+2)*3 is BinaryOp{'*', BinaryOp{'+',1,2}, 3}; when    *)
(* the token after e is not ')' the parse fails and leaves that token the  *)
(* current one; a token that is not a Number, an Identifier or '(' where a *)
(* primary is due fails and is not consumed                                *)
C17_Parenthesised == C17_Grouping /\ []C17_FailuresConsumeNothing

C17_Witness ==
    /\ input = <<"(", "1", "+", "2", ")", "*", "3">>
    /\ results = <<Anon(Bin("*", Bin("+", Num(1), Num(2)), Num(3)))>>

C17_WitnessUnclosed ==
    /\ input = <<"(", "1", "+", "2", " ", "b">>
    /\ results = <<Null>>
    /\ toks = <<"(", "tok_number", "+", "tok_number", "tok_identifier", "tok_eof">>
    /\ stderr = <<"ready> ", "expected ')'">>

C17_WitnessNotPrimary ==
    /\ input = <<"(", " ", ")">>
    /\ results = <<Null>>
    /\ toks = <<"(", ")", "tok_eof">>
    /\ stderr = <<"ready> ", "Unknown token when expecting an expression.">>

(* ---------------------------------------------------------------------- *)
(* End of input, termination, payloads                                     *)
(* ---------------------------------------------------------------------- *)
GettokCalls == { i \in 1..Len(trace) : trace[i].ev = "gettok" }

(* C18: once gettok has returned the end of input, every later gettok      *)
(* call returns it too and reads no character: the read position stays     *)
(* and the lookahead character stays EOF, also when the end was met inside *)
(* a comment                                                               *)
C18_EofSticky ==
    \A i, j \in GettokCalls :
        (i < j /\ trace[i].tok = "tok_eof")
        => /\ trace[j].tok = "tok_eof"
           /\ trace[i].LastChar = "EOF"
           /\ trace[j].LastChar = "EOF"
           /\ trace[j].pos = trace[i].pos

C18_Witness ==
    /\ input = <<"d", "e", "f", "#">>
    /\ toks = <<"tok_def", "tok_eof", "tok_eof">>
    /\ pos = 5
    /\ LastChar = "EOF"

C18_WitnessPlain ==
    /\ input = <<"d", "e", "f">>
    /\ toks = <<"tok_def", "tok_eof", "tok_eof">>
    /\ pos = 4
    /\ LastChar = "EOF"

(* the read position before gettok call i: the one after the call before   *)
(* it, 0 before the first                                                  *)
PosBefore(i) ==
    IF \E j \in GettokCalls : j < i
    THEN trace[CHOOSE j \in GettokCalls :
                   j < i /\ \A k \in GettokCalls : k < i => k <= j].pos
    ELSE 0

C19_Terminates == <>(pc = "done")

(* a turn of the loop that does not return prints the prompt and stays in  *)
(* the loop                                                                *)
C19_IterationAdvances ==
    [][ (pc = "loop" /\ pc' = "loop" /\ stderr' /= stderr)
        => /\ CurTok /= "tok_eof"
           /\ Len(toks') >= Len(toks) + 1
      ]_vars

C19_GettokConsumes ==
    \A i \in GettokCalls : trace[i].tok /= "tok_eof" => trace[i].pos > PosBefore(i)

(* C19: MainLoop reaches the end-of-input case and returns; every turn of  *)
(* the loop that does not return takes at least one token, whether its     *)
(* handler succeeds or fails; every gettok call that does not return the   *)
(* end of input reads at least one character                               *)
C19_DriverTerminates ==
    C19_Terminates /\ C19_IterationAdvances /\ []C19_GettokConsumes

C19_Witness ==
    /\ pc = "done"
    /\ Len(results) >= 2
    /\ results[1] = Null
    /\ results[Len(results)] /= Null

(* the last gettok call before event i *)
LastGettok(i) == CHOOSE j \in GettokCalls : j < i /\ \A k \in GettokCalls : k < i => k <= j

Reads == { i \in 1..Len(trace) : trace[i].ev = "read" }

(* C20: where the parser reads IdentifierStr the current token is an       *)
(* Identifier, where it reads NumVal it is a Number, and the value read is *)
(* the one the gettok call that produced the current token left there;     *)
(* for an identifier, the text that ends where that call stopped reading   *)
C20_NoStaleRead ==
    \A i \in Reads :
        /\ \E j \in GettokCalls : j < i
        /\ trace[i].tok = trace[LastGettok(i)].tok
        /\ trace[i].var = "IdentifierStr"
           => /\ trace[i].tok = "tok_identifier"
              /\ trace[i].val = trace[LastGettok(i)].IdentifierStr
              /\ trace[i].val =
                    SubSeq(input, trace[LastGettok(i)].pos - Len(trace[i].val),
                           trace[LastGettok(i)].pos - 1)
        /\ trace[i].var = "NumVal"
           => /\ trace[i].tok = "tok_number"
              /\ trace[i].val = trace[LastGettok(i)].NumVal

C20_Witness ==
    /\ pc = "done"
    /\ \E i, j, k \in Reads :
          /\ i < j /\ j < k
          /\ trace[i].var = "IdentifierStr" /\ trace[i].val = <<"f">>
          /\ trace[j].var = "IdentifierStr" /\ trace[j].val = <<"a">>
          /\ trace[k].var = "NumVal"
====
